---- MODULE Spec2Model ----
(***************************************************************************)
(* Model of deepface/models/Demography.py (the shape normalizer            *)
(* _preprocess_batch_or_single_input and the batch dispatcher              *)
(* _predict_internal) and of deepface/models/facial_recognition/           *)
(* Buffalo_L.py (preprocess and forward).                                  *)
(*                                                                         *)
(* A numpy array is a record [shape, data]: shape is the tuple of axis     *)
(* lengths, data the elements in row-major (C) order.  The operators       *)
(* below compute what the numpy calls of the source compute on that        *)
(* representation.  Names that start with an underscore in the source      *)
(* (_predict_internal, _preprocess_batch_or_single_input) lose it here.    *)
(***************************************************************************)
EXTENDS Integers, Sequences, FiniteSets, TLC

\* ------------------------------------------------------------------ bounds
\* every axis of an enumerated array has a length in 1..MaxDim
MaxDim == 2
\* enumerated arrays have 1..MaxRank axes
MaxRank == 5
\* a list input holds 1..MaxK images
MaxK == 2
\* images are told apart by a tag in 0..MaxTag carried by every element
MaxTag == 1
\* length of one prediction vector of the injected keras model
OutDim == 2
\* Buffalo_L.forward is tried on batches of 1..MaxBatch faces
MaxBatch == 3

\* ------------------------------------------------------- program constants
\* Buffalo_L: self.input_shape = (112, 112)
InputSize == 112
\* Buffalo_L: self.output_shape = 512
OutputShape == 512
\* Buffalo_L.preprocess: img.shape != (112, 112, 3)
Channels == 3

\* ------------------------------------------------------------ numpy arrays
RECURSIVE Prod(_)
Prod(s) == IF s = <<>> THEN 1 ELSE Head(s) * Prod(Tail(s))

\* a.ndim
Ndim(a) == Len(a.shape)

\* the array of the given shape whose k-th element (row-major) is <<tag, k>>
Image(shape, tag) ==
    [shape |-> shape, data |-> [k \in 1..Prod(shape) |-> <<tag, k>>]]

\* a[i-1]: the i-th item along the first axis (i counts from 1)
Item(a, i) ==
    LET rest == Tail(a.shape)
        sz   == Prod(rest)
    IN  [shape |-> rest, data |-> SubSeq(a.data, (i - 1) * sz + 1, i * sz)]

RECURSIVE ConcatData(_)
ConcatData(arrs) ==
    IF arrs = <<>> THEN <<>> ELSE Head(arrs).data \o ConcatData(Tail(arrs))

\* np.array(img) for a non-empty list of arrays of one shape: a new leading
\* axis of length len(img), the elements in list order
NpArray(lst) ==
    [shape |-> <<Len(lst)>> \o lst[1].shape, data |-> ConcatData(lst)]

\* a.squeeze(): every axis of length 1 is removed, the elements are kept
Squeeze(a) ==
    [shape |-> SelectSeq(a.shape, LAMBDA d : d # 1), data |-> a.data]

\* a.squeeze(0), called only where a.shape[0] == 1
SqueezeAxis0(a) == [shape |-> Tail(a.shape), data |-> a.data]

\* np.expand_dims(a, axis=0)
ExpandDims0(a) == [shape |-> <<1>> \o a.shape, data |-> a.data]

\* a variant of the normalizer that re-inserts the batch axis whenever at most
\* 3 axes are left (<= 3 for == 3)
preprocess_expand_upto3(img) ==
    LET image_batch0 == IF img.isList THEN NpArray(img.elems) ELSE img.elems[1]
        image_batch1 == Squeeze(image_batch0)
    IN  IF Len(image_batch1.shape) <= 3
        THEN ExpandDims0(image_batch1)
        ELSE image_batch1

\* ------------------------------------------- Demography: shape normalizer
\* The argument img is [isList, elems]: a python list of arrays (elems, in
\* list order) or one ndarray (elems = <<the array>>).
preprocess_batch_or_single_input(img) ==
    LET image_batch0 == IF img.isList THEN NpArray(img.elems) ELSE img.elems[1]
        image_batch1 == Squeeze(image_batch0)
    IN  IF Len(image_batch1.shape) = 3
        THEN ExpandDims0(image_batch1)
        ELSE image_batch1

\* ------------------------------------------------ the injected keras model
\* The network itself is not part of the repository.  It is an uninterpreted
\* function: the prediction for one sample is a vector of OutDim entries
\* that determines the sample it was computed from.
Infer(sample) == [k \in 1..OutDim |-> <<k, sample.data>>]

RECURSIVE InferRows(_, _)
InferRows(x, n) ==
    IF n = 0 THEN <<>> ELSE InferRows(x, n - 1) \o Infer(Item(x, n))

\* what the network returns for x: one row per item of x's first axis
Network(x) ==
    [shape |-> <<x.shape[1], OutDim>>, data |-> InferRows(x, x.shape[1])]

\* self.model(x, training=False).numpy(): one logged call of the legacy path
ModelCall(x) ==
    [method |-> "__call__", training |-> "False", arg |-> x, result |-> Network(x)]

\* self.model.predict_on_batch(x): one logged call of the native batch path
PredictOnBatch(x) ==
    [method |-> "predict_on_batch", training |-> "n/a", arg |-> x,
     result |-> Network(x)]

\* -------------------------------------------- Demography: batch dispatcher
\* self.model_name: the class body only annotates it (model_name: str), so
\* until a subclass assigns it the attribute does not exist.
Unset == "<unset>"
PyNone == "<None>"
ModelNames == {Unset, PyNone, "", "Age", "Gender"}

\* python truth value of an assigned model_name
Truthy(name) == name \notin {PyNone, ""}

NoArray == [shape |-> <<>>, data |-> <<>>]

Raise(exc) == [raised |-> exc, result |-> NoArray, calls |-> <<>>]

\* variants of the dispatcher: the batch of one sent to predict_on_batch,
\* the first row taken on the batch path too, the rank check weakened to >= 4
predict_internal_batch_only(name, img_batch) ==
    IF name = Unset THEN Raise("AttributeError")
    ELSE IF ~Truthy(name) THEN Raise("NotImplementedError")
    ELSE IF Ndim(img_batch) # 4 THEN Raise("AssertionError")
    ELSE LET call == PredictOnBatch(img_batch)
         IN  [raised |-> "none", result |-> call.result, calls |-> <<call>>]

predict_internal_first_row(name, img_batch) ==
    IF name = Unset THEN Raise("AttributeError")
    ELSE IF ~Truthy(name) THEN Raise("NotImplementedError")
    ELSE IF Ndim(img_batch) # 4 THEN Raise("AssertionError")
    ELSE IF img_batch.shape[1] = 1
    THEN LET call == ModelCall(SqueezeAxis0(img_batch))
         IN  [raised |-> "none", result |-> Item(call.result, 1),
              calls |-> <<call>>]
    ELSE LET call == PredictOnBatch(img_batch)
         IN  [raised |-> "none", result |-> Item(call.result, 1),
              calls |-> <<call>>]

predict_internal_min_rank(name, img_batch) ==
    IF name = Unset THEN Raise("AttributeError")
    ELSE IF ~Truthy(name) THEN Raise("NotImplementedError")
    ELSE IF Ndim(img_batch) < 4 THEN Raise("AssertionError")
    ELSE IF img_batch.shape[1] = 1
    THEN LET call == ModelCall(SqueezeAxis0(img_batch))
         IN  [raised |-> "none", result |-> Item(call.result, 1),
              calls |-> <<call>>]
    ELSE LET call == PredictOnBatch(img_batch)
         IN  [raised |-> "none", result |-> call.result, calls |-> <<call>>]

\* the outcome of self._predict_internal(img_batch) on an object whose
\* model_name attribute is name: the exception raised ("none" when it
\* returns), the value returned, and the calls made on self.model
predict_internal(name, img_batch) ==
    IF name = Unset THEN Raise("AttributeError")
    ELSE IF ~Truthy(name) THEN Raise("NotImplementedError")
    ELSE IF Ndim(img_batch) # 4 THEN Raise("AssertionError")
    ELSE IF img_batch.shape[1] = 1
    THEN LET call == ModelCall(SqueezeAxis0(img_batch))
         IN  [raised |-> "none", result |-> Item(call.result, 1),
              calls |-> <<call>>]
    ELSE LET call == PredictOnBatch(img_batch)
         IN  [raised |-> "none", result |-> call.result, calls |-> <<call>>]

\* ---------------------------------------------------------------- Buffalo_L
\* A face tensor is [shape, chan]: chan lists, for each position of the last
\* axis, the input channel found there (RGB input is <<1, 2, 3>>).
Face(shape) == [shape |-> shape, chan |-> [c \in 1..shape[Len(shape)] |-> c]]

Reverse(s) == [i \in 1..Len(s) |-> s[Len(s) + 1 - i]]

NoFace == [shape |-> <<>>, chan |-> <<>>]

\* Buffalo_L.preprocess: [raised, img]
preprocess(img) ==
    LET flip(x) == [raised |-> "none",
                    img |-> [shape |-> x.shape, chan |-> Reverse(x.chan)]]
    IN  IF Len(img.shape) = 4
        THEN IF img.shape[1] = 1
             THEN flip([shape |-> Tail(img.shape), chan |-> img.chan])
             ELSE [raised |-> "ValueError", img |-> NoFace]
        ELSE IF Len(img.shape) # 3 \/ img.shape # <<InputSize, InputSize, Channels>>
             THEN [raised |-> "ValueError", img |-> NoFace]
             ELSE flip(img)

NoEmbedding == [type |-> "none", shape |-> <<>>]

\* what self.model.get_feat may return (insightface, outside the repository):
\* the (1, 512) output of the recognition network, as an ndarray or as a list
GetFeatResults ==
    {[type |-> t, shape |-> <<1, OutputShape>>] : t \in {"ndarray", "list"}}

\* Buffalo_L.forward, get_feat returning feat: [raised, result, fed]
\* (fed: the tensor handed to get_feat)
forward(img, feat) ==
    LET p == preprocess(img)
    IN  IF p.raised # "none"
        THEN [raised |-> p.raised, result |-> NoEmbedding, fed |-> NoFace]
        ELSE IF (feat.type = "ndarray" /\ Len(feat.shape) > 1) \/ feat.type = "list"
        THEN [raised |-> "none",
              result |-> [type |-> "list", shape |-> <<Prod(feat.shape)>>],
              fed |-> p.img]
        ELSE [raised |-> "ValueError", result |-> NoEmbedding, fed |-> p.img]

\* ------------------------------------------------------------------ inputs
Shapes(r) == [1..r -> 1..MaxDim]

Arrays(ranks) ==
    {Image(s, t) : s \in UNION {Shapes(r) : r \in ranks}, t \in 0..MaxTag}

NoInput == [isList |-> FALSE, elems |-> <<>>]

\* one ndarray of any enumerated rank
ArrayInputs == {[isList |-> FALSE, elems |-> <<a>>] : a \in Arrays(1..MaxRank)}

\* a list of K images of one shape (H,W) or (H,W,C), each with its own tag
ListInputs ==
    {[isList |-> TRUE, elems |-> [i \in 1..k |-> Image(s, tags[i])]] :
        <<k, s, tags>> \in
            UNION {{<<k, s, tags>> : s \in Shapes(2) \cup Shapes(3),
                                     tags \in [1..k -> 0..MaxTag]} : k \in 1..MaxK}}

FaceInputs ==
    {Face(<<b, InputSize, InputSize, Channels>>) : b \in 1..MaxBatch}
        \cup {Face(<<InputSize, InputSize, Channels>>),
              Face(<<InputSize, InputSize>>),
              Face(<<InputSize, InputSize, 1>>)}

\* ------------------------------------------------------------------- state
VARIABLES
    pc,             \* "idle", "preprocessed", "predicted" or "forwarded"
    model_name,     \* the object's model_name attribute
    img,            \* argument of the last _preprocess_batch_or_single_input
    image_batch,    \* its return value
    img_batch,      \* argument of the last _predict_internal
    predict_result, \* its return value
    raised,         \* exception raised by the last call, or "none"
    calls,          \* the calls the last _predict_internal made on self.model
    face,           \* argument of the last Buffalo_L.forward
    fed,            \* the tensor it handed to get_feat
    embedding       \* its return value

vars == <<pc, model_name, img, image_batch, img_batch, predict_result, raised,
          calls, face, fed, embedding>>

Init ==
    /\ pc = "idle"
    /\ model_name \in ModelNames
    /\ img = NoInput
    /\ image_batch = NoArray
    /\ img_batch = NoArray
    /\ predict_result = NoArray
    /\ raised = "none"
    /\ calls = <<>>
    /\ face = NoFace
    /\ fed = NoFace
    /\ embedding = NoEmbedding

\* a caller (a concrete model's predict) normalizes its input
Preprocess(x) ==
    /\ pc = "idle"
    /\ img' = x
    /\ image_batch' = preprocess_batch_or_single_input(x)
    /\ pc' = "preprocessed"
    /\ UNCHANGED <<model_name, img_batch, predict_result, raised, calls, face,
                   fed, embedding>>

Dispatch(t) ==
    LET r == predict_internal(model_name, t)
    IN  /\ img_batch' = t
        /\ predict_result' = r.result
        /\ raised' = r.raised
        /\ calls' = r.calls
        /\ pc' = "predicted"

\* ... and hands the normalized array to _predict_internal
PredictNormalized ==
    /\ pc = "preprocessed"
    /\ Dispatch(image_batch)
    /\ UNCHANGED <<model_name, img, image_batch, face, fed, embedding>>

\* _predict_internal called directly on an arbitrary array
PredictDirect(t) ==
    /\ pc = "idle"
    /\ Dispatch(t)
    /\ UNCHANGED <<model_name, img, image_batch, face, fed, embedding>>

\* Buffalo_L.forward(f), get_feat returning feat
Forward(f, feat) ==
    LET r == forward(f, feat)
    IN  /\ pc = "idle"
        /\ face' = f
        /\ fed' = r.fed
        /\ embedding' = r.result
        /\ raised' = r.raised
        /\ pc' = "forwarded"
        /\ UNCHANGED <<model_name, img, image_batch, img_batch, predict_result,
                       calls>>

\* the call is over (returned or raised); the object is ready for the next
Return ==
    /\ pc \in {"predicted", "forwarded"}
    /\ pc' = "idle"
    /\ img' = NoInput
    /\ image_batch' = NoArray
    /\ img_batch' = NoArray
    /\ predict_result' = NoArray
    /\ raised' = "none"
    /\ calls' = <<>>
    /\ face' = NoFace
    /\ fed' = NoFace
    /\ embedding' = NoEmbedding
    /\ UNCHANGED model_name

Next ==
    \/ \E x \in ArrayInputs \cup ListInputs : Preprocess(x)
    \/ PredictNormalized
    \/ \E t \in Arrays(1..MaxRank) : PredictDirect(t)
    \/ \E f \in FaceInputs, feat \in GetFeatResults : Forward(f, feat)
    \/ Return

Spec == Init /\ [][Next]_vars

\* ------------------------------------------------------------------ claims
\* the normalizer has returned (and perhaps the dispatcher after it)
Normalized == pc \in {"preprocessed", "predicted"} /\ img # NoInput

\* the ndarray passed to the normalizer
InputArray == img.elems[1]

\* a model_name that lets _predict_internal past its first check
Configured(name) == name # Unset /\ Truthy(name)

\* the three accepted forms of the normalizer's input
IsSingleImage == Normalized /\ ~img.isList /\ Ndim(InputArray) = 3
IsImageList ==
    Normalized /\ img.isList /\ \A i \in 1..Len(img.elems) : Ndim(img.elems[i]) = 3
IsBatch == Normalized /\ ~img.isList /\ Ndim(InputArray) = 4

\* C1: every single 3-D image of shape (H,W,C) is normalized to an array of
\* shape (1,H,W,C) whose only batch item is the image.
C1_SingleImageGetsBatchAxis ==
    IsSingleImage =>
        /\ image_batch.shape = <<1>> \o InputArray.shape
        /\ Item(image_batch, 1) = InputArray

\* C2: every list of K >= 1 images of one shape (H,W,C) is normalized to an
\* array of shape (K,H,W,C) whose batch item i is the i-th list element.
C2_ListIsStackedInOrder ==
    IsImageList =>
        /\ image_batch.shape = <<Len(img.elems)>> \o img.elems[1].shape
        /\ \A i \in 1..Len(img.elems) : Item(image_batch, i) = img.elems[i]

\* C3: every already-batched array of shape (N,H,W,C), N > 1, is returned
\* unchanged (same shape, same contents), and normalizing the result again
\* changes nothing.
C3_BatchIsUnchanged ==
    (IsBatch /\ InputArray.shape[1] > 1) =>
        /\ image_batch = InputArray
        /\ preprocess_batch_or_single_input(
               [isList |-> FALSE, elems |-> <<image_batch>>]) = image_batch

\* a single grayscale image of shape (H,W,1) with H > 1 and W > 1
IsGrayscaleImage ==
    /\ IsSingleImage
    /\ InputArray.shape[1] > 1
    /\ InputArray.shape[2] > 1
    /\ InputArray.shape[3] = 1

C5_NormalizedIs4D ==
    (IsSingleImage \/ IsImageList \/ IsBatch) =>
        /\ Ndim(image_batch) = 4
        /\ (pc = "predicted" /\ Configured(model_name)) => raised # "AssertionError"

\* _predict_internal has been called on a 4-D array by a configured model
Dispatched4D ==
    pc = "predicted" /\ Configured(model_name) /\ Ndim(img_batch) = 4

\* C6: on a batch of shape (1,H,W,C) a configured model's _predict_internal
\* calls the model exactly once, through the legacy path (training=False) on
\* the image with the batch axis removed, never through predict_on_batch, and
\* returns the first row of that call's result, a 1-D vector.
C6_BatchOfOneTakesLegacyPath ==
    (Dispatched4D /\ img_batch.shape[1] = 1) =>
        /\ raised = "none"
        /\ Len(calls) = 1
        /\ calls[1].method = "__call__"
        /\ calls[1].training = "False"
        /\ calls[1].arg = Item(img_batch, 1)
        /\ Ndim(predict_result) = 1
        /\ predict_result = Item(calls[1].result, 1)

C6_Witness ==
    Dispatched4D /\ img_batch.shape[1] = 1 /\ raised = "none" /\ Len(calls) = 1

\* C7: on a batch of shape (N,H,W,C), N > 1, a configured model's
\* _predict_internal calls predict_on_batch exactly once, on the batch as
\* given, never the legacy path, and returns that call's result unmodified: N
\* rows, row i the prediction for batch item i.
C7_BatchTakesNativePath ==
    (Dispatched4D /\ img_batch.shape[1] > 1) =>
        /\ raised = "none"
        /\ Len(calls) = 1
        /\ calls[1].method = "predict_on_batch"
        /\ calls[1].arg = img_batch
        /\ predict_result = calls[1].result
        /\ predict_result.shape = <<img_batch.shape[1], OutDim>>
        /\ \A i \in 1..img_batch.shape[1] :
               Item(predict_result, i).data = Infer(Item(img_batch, i))

C7_Witness ==
    Dispatched4D /\ img_batch.shape[1] > 1 /\ raised = "none" /\ Len(calls) = 1

\* C8: with an empty or absent model identifier _predict_internal raises
\* NotImplementedError for any input, 4-D or not, and calls neither path.
C8_UnconfiguredRaisesNotImplemented ==
    (pc = "predicted" /\ ~Configured(model_name)) =>
        /\ raised = "NotImplementedError"
        /\ calls = <<>>

\* C9: a configured model's _predict_internal, given an array whose number of
\* axes is not 4, raises the assertion error, calls neither path and returns
\* nothing.
C9_Non4DRaisesAssertion ==
    (pc = "predicted" /\ Configured(model_name) /\ Ndim(img_batch) # 4) =>
        /\ raised = "AssertionError"
        /\ calls = <<>>
        /\ predict_result = NoArray

C9_Witness ==
    /\ pc = "predicted"
    /\ Configured(model_name)
    /\ Ndim(img_batch) = 5
    /\ raised = "AssertionError"

\* C10: Buffalo_L.forward, given a face tensor of shape (batch_size,112,112,3)
\* with batch_size >= 1, returns an embedding (a list) and does not raise.
C10_ForwardAcceptsBatches ==
    (/\ pc = "forwarded"
     /\ Len(face.shape) = 4
     /\ Tail(face.shape) = <<InputSize, InputSize, Channels>>) =>
        /\ raised = "none"
        /\ embedding.type = "list"

\* --------------------------------------- what the normalizer does guarantee
\* The failures of C1, C2, C3 and C5 all come from squeeze() removing an
\* image axis (H, W or C) of length 1.  With every image axis longer than 1
\* the normalizer returns the 4-D batch, items in order.
NoUnitAxis(shape) == \A i \in 1..Len(shape) : shape[i] > 1

SingleImageWithoutUnitAxis ==
    (IsSingleImage /\ NoUnitAxis(InputArray.shape)) =>
        /\ image_batch.shape = <<1>> \o InputArray.shape
        /\ Item(image_batch, 1) = InputArray

ListWithoutUnitAxis ==
    (IsImageList /\ NoUnitAxis(img.elems[1].shape)) =>
        /\ image_batch.shape = <<Len(img.elems)>> \o img.elems[1].shape
        /\ \A i \in 1..Len(img.elems) : Item(image_batch, i) = img.elems[i]

BatchWithoutUnitAxis ==
    (IsBatch /\ NoUnitAxis(Tail(InputArray.shape))) =>
        image_batch = InputArray

NormalizedWithoutUnitAxisIs4D ==
    (\/ IsSingleImage /\ NoUnitAxis(InputArray.shape)
     \/ IsImageList /\ NoUnitAxis(img.elems[1].shape)
     \/ IsBatch /\ NoUnitAxis(Tail(InputArray.shape))) =>
        /\ Ndim(image_batch) = 4
        /\ (pc = "predicted" /\ Configured(model_name)) => raised # "AssertionError"

\* With an assigned but false model_name (None or "") the configuration error
\* is raised for every input before any call on the model; the AttributeError
\* of a never-assigned model_name comes as early.
AssignedFalseNameRaisesNotImplemented ==
    (pc = "predicted" /\ model_name \in {PyNone, ""}) =>
        /\ raised = "NotImplementedError"
        /\ calls = <<>>

UnassignedNameRaisesAttributeError ==
    (pc = "predicted" /\ model_name = Unset) =>
        /\ raised = "AttributeError"
        /\ calls = <<>>

\* Buffalo_L.forward returns an embedding of OutputShape floats for a batch
\* of exactly one face, handing get_feat the face with its channels reversed
ForwardAcceptsBatchOfOne ==
    (pc = "forwarded" /\ face.shape = <<1, InputSize, InputSize, Channels>>) =>
        /\ raised = "none"
        /\ embedding = [type |-> "list", shape |-> <<OutputShape>>]
        /\ fed = [shape |-> <<InputSize, InputSize, Channels>>,
                  chan |-> Reverse(face.chan)]

====
